---- MODULE Spec2Model ----
(***************************************************************************)
(* Model of the conversation context session (src/lib/ai/context/session)  *)
(* and of the trigger merge (src/lib/repositories/postgres/triggers).      *)
(*                                                                         *)
(* The session is a single-threaded object driven by an event loop: code   *)
(* between two external awaits runs to completion, so one action models    *)
(* one run-to-completion segment.  A getOptimizedMessages call really      *)
(* suspends in two places only: the summarizer call (generateText) and     *)
(* the metrics insert (insertContextMetrics).                              *)
(***************************************************************************)
EXTENDS Integers, Sequences, FiniteSets, TLC

\* ------------------------------------------------------------------ bounds
MaxMsgs == 4
MaxBatch == 2

\* Configurations explored (ContextConfig is immutable per session).
MaxTurnsValues == {0, 1, 2}
SummarizeAfterValues == {0, 1, 2}

\* The roles explored; "tool" is handled as "assistant" is by every branch.
Roles == {"user", "assistant", "system"}
Calls == {1, 2}

\* The text of the synthetic user message of a summary exchange.
SummaryPrompt == "Summarize our conversation so far for context."
\* What the summarizer call can do: throw, return "", return a text.
SummaryText == "summary"
SummarizerOutcomes == {"throw", "empty", "text"}

VARIABLES
    maxTurns, summarizeAfter, metricsEnabled,   \* this.config
    rawMessages, optimizedMessages, contextDirty,
    lastSummaryTurn, summaryAddedLastRefresh, toolTrimCountLastRefresh,
    pc, recent, older, totalTurns,              \* per call: position and locals
    overlapped,                                 \* history: two passes were in flight at once
    returned,                                   \* history: what the last call returned
    results, merged,                            \* trigger merge: input and output
    toolName, toolResult, previousResult, applications,  \* tool result compressor
    toolTrimming,                               \* applyToolTrimming over the tool result
    profiles, likedLookup, ranked,              \* relevance ranking: inputs and output
    tableRows, bioTable, filters, queryResult,  \* trigger queries: tables, filters, result
    promises, completed, feed                   \* processAllTriggers: queries in flight, feed

sessionVars == <<maxTurns, summarizeAfter, metricsEnabled, rawMessages,
                 optimizedMessages, contextDirty, lastSummaryTurn,
                 summaryAddedLastRefresh, toolTrimCountLastRefresh, pc, recent, older, totalTurns,
                 overlapped, returned>>
mergeVars == <<results, merged>>
trimVars == <<toolName, toolResult, previousResult, applications, toolTrimming>>
\* What a session operation leaves alone.
rankVars == <<profiles, likedLookup, ranked>>
triggerVars == <<tableRows, bioTable, filters, queryResult, promises, completed, feed>>
otherVars == <<mergeVars, trimVars, rankVars, triggerVars>>
vars == <<sessionVars, mergeVars, trimVars, rankVars, triggerVars>>

\* ------------------------------------------------------------------ helpers
Filter(seq, Test(_)) == SelectSeq(seq, Test)

IsSystem(m) == m.role = "system"
IsNotSystem(m) == m.role # "system"
IsUser(m) == m.role = "user"

\* Array.prototype.slice(start, end) on 0-based positions; an undefined start
\* is 0, an undefined end or an end past the length is the length.  Undefined is modelled as -1.
Undefined == -1
Slice(seq, start, end) ==
    LET s == IF start = Undefined THEN 0 ELSE start
        e == IF end = Undefined \/ end > Len(seq) THEN Len(seq) ELSE end
    IN  SubSeq(seq, s + 1, e)

\* A message as addMessages stores it: role and content only.  The content of
\* the i-th appended message is a text unique to it.
Content(i) == "m" \o ToString(i)
Msg(r, i) == [role |-> r, content |-> Content(i)]

\* countUserTurns
countUserTurns(messages) == Len(Filter(messages, IsUser))

\* userIndices of applyTurnBasedTrimming: the 0-based positions of the user
\* messages, in order.
RECURSIVE UserIndicesFrom(_, _)
UserIndicesFrom(messages, i) ==
    IF i > Len(messages) THEN <<>>
    ELSE (IF messages[i].role = "user" THEN <<i - 1>> ELSE <<>>)
         \o UserIndicesFrom(messages, i + 1)
userIndices(messages) == UserIndicesFrom(messages, 1)

\* userIndices[userIndices.length - maxTurns]: undefined when out of range.
StartIndex(U, m) ==
    LET j == Len(U) - m
    IN  IF j >= 0 /\ j < Len(U) THEN U[j + 1] ELSE Undefined

\* As applyTurnBasedTrimming, the recent tail being collected newest first.
applyTurnBasedTrimmingNewestFirst(messages, m) ==
    LET U == userIndices(messages)
        turnCount == Len(U)
    IN  IF turnCount <= m
        THEN [recent |-> messages, older |-> <<>>]
        ELSE LET startIndex == StartIndex(U, m)
                 systemMessages == Filter(messages, IsSystem)
                 olderPart == Filter(Slice(messages, 0, startIndex), IsNotSystem)
                 recentTail == Slice(messages, startIndex, Undefined)
                 newestFirst == [i \in 1..Len(recentTail) |->
                                    recentTail[Len(recentTail) + 1 - i]]
             IN  [recent |-> systemMessages \o newestFirst, older |-> olderPart]

applyTurnBasedTrimming(messages, m) ==
    LET U == userIndices(messages)
        turnCount == Len(U)
    IN  IF turnCount <= m
        THEN [recent |-> messages, older |-> <<>>]
        ELSE LET startIndex == StartIndex(U, m)
                 systemMessages == Filter(messages, IsSystem)
                 olderPart == Filter(Slice(messages, 0, startIndex), IsNotSystem)
                 recentTail == Slice(messages, startIndex, Undefined)
             IN  [recent |-> systemMessages \o recentTail, older |-> olderPart]

\* toSdkFormat keeps role and content.
toSdkFormat(messages) == [i \in 1..Len(messages) |->
                            [role |-> messages[i].role, content |-> messages[i].content]]

\* summarizeContext: the text, or null (modelled as <<>>) when the call throws.
Null == <<>>
summarizeContext(outcome) ==
    CASE outcome = "throw" -> Null
      [] outcome = "empty" -> <<"">>
      [] OTHER -> <<SummaryText>>

\* `!summary`: null or the empty string.
Falsy(summary) == summary = Null \/ summary[1] = ""

summaryMessages(summary) ==
    << [role |-> "user", content |-> SummaryPrompt],
       [role |-> "assistant", content |-> summary[1]] >>

\* As NeedsSummary, without the test for older messages.
NeedsSummaryIgnoringOlder(olderMsgs, raw, after, lastTurn) ==
    /\ ~(after <= 0)
    /\ ~(countUserTurns(raw) <= after)
    /\ ~(countUserTurns(raw) <= lastTurn)

\* As NeedsSummary, without the watermark test.
NeedsSummaryNoWatermark(olderMsgs, raw, after, lastTurn) ==
    /\ Len(olderMsgs) # 0
    /\ ~(after <= 0)
    /\ ~(countUserTurns(raw) <= after)

\* injectSummaryIfNeeded up to its await: TRUE when the summarizer is called.
NeedsSummary(olderMsgs, raw, after, lastTurn) ==
    /\ Len(olderMsgs) # 0
    /\ ~(after <= 0)
    /\ ~(countUserTurns(raw) <= after)
    /\ ~(countUserTurns(raw) <= lastTurn)

\* injectSummaryIfNeeded after its await: the final list.
InjectResult(recentMsgs, summary) ==
    IF Falsy(summary) THEN recentMsgs
    ELSE Filter(recentMsgs, IsSystem) \o summaryMessages(summary)
         \o Filter(recentMsgs, IsNotSystem)

Idle == [c \in Calls |-> "idle"]
\* What the most recent getOptimizedMessages call returned, and whether it
\* returned the cached list; NoReturn until a call returns and again once
\* addMessages is called.
NoReturn == [value |-> <<>>, cached |-> FALSE, any |-> FALSE]
Returns(list, fromCache) == [value |-> list, cached |-> fromCache, any |-> TRUE]
NoLocals == [c \in Calls |-> <<>>]

\* ------------------------------------------------------------------ tool result compressor
\* A value of unknown type is tagged: an object with its fields (a function
\* from the keys present to their values), or null.  An array is a sequence.
\* The values of a key have one type: user_id, trending_score, total_signals
\* and original_count are numbers, trimmed and truncated booleans, the other
\* scalar fields strings.
Object(fields) == [kind |-> "object", fields |-> fields]
NullValue == [kind |-> "null", fields |-> <<>>]
IsObject(value) == value.kind = "object"
EmptyObject == <<>>
Has(obj, key) == key \in DOMAIN obj
\* { ...obj, key: value }
Assign(obj, key, value) ==
    [k \in (DOMAIN obj) \cup {key} |-> IF k = key THEN value ELSE obj[k]]
MapArray(array, F(_)) == [i \in 1..Len(array) |-> F(array[i])]

maxProfiles == 50
maxSignals == 50
maxMembers == 50
arrayFieldLimit == 3
trendingAbove == 7
signalsAbove == 5
\* config.maxToolPayloadChars of the session explored.
maxToolPayloadChars == 16

essential == <<"user_id", "name", "screen_name", "headline", "trending_score",
               "followed_by_count", "stealth_status", "recent_bio_change",
               "profile_url">>

\* signals.join(", ")
RECURSIVE Join(_)
Join(signals) ==
    IF Len(signals) = 0 THEN ""
    ELSE IF Len(signals) = 1 THEN signals[1]
    ELSE signals[1] \o ", " \o Join(Tail(signals))

\* The signals of compressProfile, from the profile it is given.
SignalsOf(p) ==
    (IF Has(p, "recent_bio_change") /\ p["recent_bio_change"] # ""
     THEN <<"bio changed">> ELSE <<>>)
    \o (IF Has(p, "stealth_status") /\ p["stealth_status"] # ""
        THEN <<"stealth: " \o p["stealth_status"]>> ELSE <<>>)
    \o (IF Has(p, "trending_score") /\ p["trending_score"] > trendingAbove
        THEN <<"trending">> ELSE <<>>)
    \o (IF Has(p, "total_signals") /\ p["total_signals"] > signalsAbove
        THEN <<ToString(p["total_signals"]) \o " signals">> ELSE <<>>)

compressProfile(profile) ==
    IF ~IsObject(profile) THEN Object(EmptyObject)
    ELSE LET p == profile.fields
             compressed == [k \in (DOMAIN p) \cap {essential[i] : i \in 1..Len(essential)}
                               |-> p[k]]
             signals == SignalsOf(p)
         IN  Object(IF Len(signals) > 0
                    THEN Assign(compressed, "signal_summary", Join(signals))
                    ELSE compressed)

trimFindPeopleResult(result) ==
    IF Has(result, "results") /\ Len(result["results"]) > maxProfiles
    THEN Assign(Assign(Assign(result,
            "results", MapArray(Slice(result["results"], 0, maxProfiles), compressProfile)),
            "trimmed", TRUE),
            "original_count", Len(result["results"]))
    ELSE IF Has(result, "results")
    THEN Assign(result, "results", MapArray(result["results"], compressProfile))
    ELSE result

arrayFields == <<"sectors", "locations", "stages", "companies">>

trimPersonDetailsResult(result) ==
    IF ~Has(result, "profile") THEN result
    ELSE LET profile == result["profile"]
             limitedProfile ==
                 [k \in DOMAIN profile |->
                     IF k \in {arrayFields[i] : i \in 1..Len(arrayFields)}
                     THEN Slice(profile[k], 0, arrayFieldLimit)
                     ELSE profile[k]]
         IN  Assign(result, "profile", limitedProfile)

trimAnalyzeNetworkResult(result) ==
    IF Has(result, "profiles") /\ Len(result["profiles"]) > maxProfiles
    THEN Assign(Assign(Assign(result,
            "profiles", MapArray(Slice(result["profiles"], 0, maxProfiles), compressProfile)),
            "trimmed", TRUE),
            "original_count", Len(result["profiles"]))
    ELSE result

\* As trimFeedSignalsResult, keeping the last maxSignals signals.
trimFeedSignalsResultTail(result) ==
    IF Has(result, "signals") /\ Len(result["signals"]) > maxSignals
    THEN Assign(Assign(Assign(result,
            "signals", Slice(result["signals"],
                             Len(result["signals"]) - maxSignals, Undefined)),
            "trimmed", TRUE),
            "original_count", Len(result["signals"]))
    ELSE result

trimFeedSignalsResult(result) ==
    IF Has(result, "signals") /\ Len(result["signals"]) > maxSignals
    THEN Assign(Assign(Assign(result,
            "signals", Slice(result["signals"], 0, maxSignals)),
            "trimmed", TRUE),
            "original_count", Len(result["signals"]))
    ELSE result

trimGroupMembersResult(result) ==
    IF Has(result, "members") /\ Len(result["members"]) > maxMembers
    THEN Assign(Assign(Assign(result,
            "members", MapArray(Slice(result["members"], 0, maxMembers), compressProfile)),
            "trimmed", TRUE),
            "original_count", Len(result["members"]))
    ELSE result

\* JSON.stringify of the flat objects handed to genericTrim: the keys in
\* insertion order, strings quoted and escaped, numbers in decimal.
RECURSIVE Escape(_)
Escape(text) ==
    IF Len(text) = 0 THEN ""
    ELSE LET ch == SubSeq(text, 1, 1)
         IN  (IF ch = "\"" THEN "\\\"" ELSE IF ch = "\\" THEN "\\\\" ELSE ch)
             \o Escape(SubSeq(text, 2, Len(text)))
keyOrder == <<"output", "raw_output", "truncated", "original_length">>
StringifyValue(key, value) ==
    CASE key = "truncated" -> IF value THEN "true" ELSE "false"
      [] key = "original_length" -> ToString(value)
      [] OTHER -> "\"" \o Escape(value) \o "\""
RECURSIVE StringifyMembers(_, _, _)
StringifyMembers(obj, i, first) ==
    IF i > Len(keyOrder) THEN ""
    ELSE IF ~Has(obj, keyOrder[i]) THEN StringifyMembers(obj, i + 1, first)
    ELSE (IF first THEN "" ELSE ",")
         \o "\"" \o keyOrder[i] \o "\":" \o StringifyValue(keyOrder[i], obj[keyOrder[i]])
         \o StringifyMembers(obj, i + 1, FALSE)
JSONstringify(obj) == "{" \o StringifyMembers(obj, 1, TRUE) \o "}"

\* As genericTrim, a serialization of exactly the limit being truncated too.
genericTrimAtLimit(result) ==
    LET jsonStr == JSONstringify(result)
    IN  IF Len(jsonStr) < maxToolPayloadChars THEN result
        ELSE [raw_output |-> SubSeq(jsonStr, 1, maxToolPayloadChars),
              truncated |-> TRUE,
              original_length |-> Len(jsonStr)]

genericTrim(result) ==
    LET jsonStr == JSONstringify(result)
    IN  IF Len(jsonStr) <= maxToolPayloadChars THEN result
        ELSE [raw_output |-> SubSeq(jsonStr, 1, maxToolPayloadChars),
              truncated |-> TRUE,
              original_length |-> Len(jsonStr)]

trimToolResult(tool, result) ==
    IF ~IsObject(result) THEN result
    ELSE Object(CASE tool = "find_people" -> trimFindPeopleResult(result.fields)
                  [] tool = "get_person_details" -> trimPersonDetailsResult(result.fields)
                  [] tool = "analyze_network" -> trimAnalyzeNetworkResult(result.fields)
                  [] tool = "get_feed_signals" -> trimFeedSignalsResult(result.fields)
                  [] tool = "get_group_members" -> trimGroupMembersResult(result.fields)
                  [] OTHER -> genericTrim(result.fields))

\* The tool results explored.  A profile has a user_id and any of a bio (not
\* an essential field), a recent bio change, a stealth status, a trending
\* score and a signal count; an array holds no, one or maxProfiles + 1
\* profiles.  The result of a tool without a trimmer of its own is a flat
\* object of texts.
MaxApplications == 2
OptionalKeys == {"bio", "recent_bio_change", "stealth_status", "trending_score",
                 "total_signals"}
FullProfiles ==
    { [user_id |-> 1, bio |-> "b", recent_bio_change |-> "2024-01-01",
       stealth_status |-> "in", trending_score |-> 8, total_signals |-> n] :
        n \in {3, 6} }
ProfileValues ==
    {NullValue} \cup
    { Object([k \in K \cup {"user_id"} |-> full[k]]) :
        K \in SUBSET OptionalKeys, full \in FullProfiles }
ProfileArrays ==
    {<<>>} \cup {<<p>> : p \in ProfileValues}
           \cup {[i \in 1..(maxProfiles + 1) |-> p] : p \in ProfileValues}
           \cup {[i \in 1..n |-> Object([user_id |-> i, bio |-> "b"])] :
                    n \in {maxProfiles, maxProfiles + 1}}
SignalArrays ==
    {<<>>} \cup {[i \in 1..n |-> Object([signal_id |-> i, user_id |-> 1])] :
                    n \in {2, maxSignals, maxSignals + 1}}
ProfileDetails ==
    { [name |-> "n", sectors |-> [i \in 1..n |-> i]] : n \in {2, 4} }
Texts == {"", "abc", "abcd", "say \"hi\" now"}
FlatResults == {Object([output |-> t]) : t \in Texts}
StructuredResults ==
    { Object([results |-> a]) : a \in ProfileArrays }
    \cup { Object([profiles |-> a]) : a \in ProfileArrays }
    \cup { Object([members |-> a]) : a \in ProfileArrays }
    \cup { Object([signals |-> a]) : a \in SignalArrays }
    \cup { Object([profile |-> d]) : d \in ProfileDetails }
TrimmerTools == {"find_people", "get_person_details", "analyze_network",
                 "get_feed_signals", "get_group_members"}
ToolInputs ==
    (TrimmerTools \X (StructuredResults \cup FlatResults \cup {NullValue}))
    \cup ({"search_web"} \X (FlatResults \cup {NullValue}))

\* `trimmed !== event.result` of applyToolTrimming: TRUE when trimToolResult
\* hands back an object other than the one it was given.  Every trimmer
\* returns either its argument or a fresh object literal.
IsNewObject(tool, result) ==
    IF ~IsObject(result) THEN FALSE
    ELSE LET r == result.fields
         IN  CASE tool = "find_people" -> Has(r, "results")
               [] tool = "get_person_details" -> Has(r, "profile")
               [] tool = "analyze_network" ->
                     Has(r, "profiles") /\ Len(r["profiles"]) > maxProfiles
               [] tool = "get_feed_signals" ->
                     Has(r, "signals") /\ Len(r["signals"]) > maxSignals
               [] tool = "get_group_members" ->
                     Has(r, "members") /\ Len(r["members"]) > maxMembers
               [] OTHER -> Len(JSONstringify(r)) > maxToolPayloadChars

\* A tool event: its type, tool and result (null when it has none), and its
\* trimmed flag (FALSE when not set).
ToolResultEvent(tool, result) ==
    [type |-> "tool_result", tool |-> tool, result |-> result, trimmed |-> FALSE]
\* The callback applyToolTrimming maps over msg.toolEvents.
trimToolEvent(event) ==
    IF event.type # "tool_result" \/ ~IsObject(event.result) THEN event
    ELSE IF IsNewObject(event.tool, event.result)
    THEN [event EXCEPT !.result = trimToolResult(event.tool, event.result),
                       !.trimmed = TRUE]
    ELSE event
HasToolEvents(msg) == "toolEvents" \in DOMAIN msg

applyToolTrimming(messages) ==
    [i \in 1..Len(messages) |->
        IF messages[i].role # "assistant" \/ ~HasToolEvents(messages[i])
        THEN messages[i]
        ELSE [messages[i] EXCEPT !.toolEvents =
                 [j \in 1..Len(messages[i].toolEvents) |->
                     trimToolEvent(messages[i].toolEvents[j])]]]

\* What applyToolTrimming adds to this.toolTrimCountLastRefresh.
RECURSIVE CountNewObjects(_)
CountNewObjects(events) ==
    IF Len(events) = 0 THEN 0
    ELSE (IF /\ Head(events).type = "tool_result"
             /\ IsObject(Head(events).result)
             /\ IsNewObject(Head(events).tool, Head(events).result)
          THEN 1 ELSE 0) + CountNewObjects(Tail(events))
RECURSIVE CountToolTrims(_)
CountToolTrims(messages) ==
    IF Len(messages) = 0 THEN 0
    ELSE (IF Head(messages).role # "assistant" \/ ~HasToolEvents(Head(messages))
          THEN 0 ELSE CountNewObjects(Head(messages).toolEvents))
         + CountToolTrims(Tail(messages))

\* config.toolTrimEnabled of the sessions explored (the default).
toolTrimEnabled == TRUE

NotTrimmed == [done |-> FALSE, input |-> NullValue, messages |-> <<>>, count |-> 0]

TrimUnused ==
    /\ toolName = "none"
    /\ toolResult = NullValue
    /\ previousResult = NullValue
    /\ applications = 0
    /\ toolTrimming = NotTrimmed

\* ------------------------------------------------------------------ session
SessionInit ==
    /\ maxTurns \in MaxTurnsValues
    /\ summarizeAfter \in SummarizeAfterValues
    /\ metricsEnabled \in BOOLEAN
    /\ rawMessages = <<>>
    /\ optimizedMessages = <<>>
    /\ contextDirty = TRUE
    /\ lastSummaryTurn = 0
    /\ summaryAddedLastRefresh = FALSE
    /\ toolTrimCountLastRefresh = 0
    /\ pc = Idle
    /\ recent = NoLocals
    /\ older = NoLocals
    /\ totalTurns = [c \in Calls |-> 0]
    /\ overlapped = FALSE
    /\ returned = NoReturn

\* Sequences of roles of length 0..n.
RECURSIVE RoleSeqs(_)
RoleSeqs(n) ==
    IF n = 0 THEN {<<>>}
    ELSE LET S == RoleSeqs(n - 1)
         IN  S \cup {Append(s, r) : s \in {t \in S : Len(t) = n - 1}, r \in Roles}

\* The messages a caller hands to addMessages: the roles of `batch`, contents
\* numbered after the `stored` messages, the assistant messages carrying a
\* toolEvents property (what addMessages stores is the same without it).
CoreMessages(batch, stored) ==
    [i \in 1..Len(batch) |->
        IF batch[i] = "assistant"
        THEN [role |-> batch[i], content |-> Content(stored + i),
              toolEvents |-> <<ToolResultEvent("find_people",
                                               Object([results |-> <<>>]))>>]
        ELSE Msg(batch[i], stored + i)]

\* As addMessages, each message being pushed as it was given.
addMessagesKeepingToolEvents(messages) ==
    /\ rawMessages' = rawMessages \o messages
    /\ contextDirty' = TRUE
    /\ returned' = NoReturn
    /\ UNCHANGED <<maxTurns, summarizeAfter, metricsEnabled, optimizedMessages,
                   toolTrimCountLastRefresh,
                   lastSummaryTurn, summaryAddedLastRefresh, pc, recent, older,
                   totalTurns, overlapped, otherVars>>

\* addMessages(messages)
addMessages(messages) ==
    /\ rawMessages' = rawMessages \o
            [i \in 1..Len(messages) |->
                [role |-> messages[i].role, content |-> messages[i].content]]
    /\ contextDirty' = TRUE
    /\ returned' = NoReturn
    /\ UNCHANGED <<maxTurns, summarizeAfter, metricsEnabled, optimizedMessages,
                   toolTrimCountLastRefresh,
                   lastSummaryTurn, summaryAddedLastRefresh, pc, recent, older,
                   totalTurns, overlapped, otherVars>>

\* The free call slot a new getOptimizedMessages call takes.
FreeSlot(c) == pc[c] = "idle" /\ \A d \in Calls : d < c => pc[d] # "idle"
InFlight(c) == pc[c] # "idle"

\* The tail of refreshOptimizedCache and of getOptimizedMessages once the
\* final list is known: store it, then either suspend in recordMetrics or
\* return (contextDirty = false).
Finish(c, finalMessages) ==
    /\ optimizedMessages' = toSdkFormat(finalMessages)
    /\ recent' = [recent EXCEPT ![c] = <<>>]
    /\ older' = [older EXCEPT ![c] = <<>>]
    /\ totalTurns' = [totalTurns EXCEPT ![c] = 0]
    /\ IF metricsEnabled
       THEN /\ pc' = [pc EXCEPT ![c] = "metrics"]
            /\ UNCHANGED <<contextDirty, returned>>
       ELSE /\ pc' = [pc EXCEPT ![c] = "idle"]
            /\ contextDirty' = FALSE
            /\ returned' = Returns(toSdkFormat(finalMessages), FALSE)

\* getOptimizedMessages on a clean session: the cached list is returned.
CacheHit(c) ==
    /\ FreeSlot(c)
    /\ ~contextDirty
    /\ returned' = Returns(optimizedMessages, TRUE)
    /\ UNCHANGED <<maxTurns, summarizeAfter, metricsEnabled, rawMessages,
                   toolTrimCountLastRefresh,
                   optimizedMessages, contextDirty, lastSummaryTurn,
                   summaryAddedLastRefresh, pc, recent, older, totalTurns,
                   overlapped, otherVars>>

\* getOptimizedMessages on a dirty session with no message: the cache is set
\* to the empty list and the call returns.
EmptyPass(c) ==
    /\ FreeSlot(c)
    /\ contextDirty
    /\ Len(rawMessages) = 0
    /\ optimizedMessages' = <<>>
    /\ contextDirty' = FALSE
    /\ returned' = Returns(<<>>, FALSE)
    /\ overlapped' = (overlapped \/ \E d \in Calls : InFlight(d))
    /\ UNCHANGED <<maxTurns, summarizeAfter, metricsEnabled, rawMessages,
                   toolTrimCountLastRefresh,
                   lastSummaryTurn, summaryAddedLastRefresh, pc, recent, older,
                   totalTurns, otherVars>>

\* getOptimizedMessages on a dirty session: refreshOptimizedCache up to the
\* first suspension.
StartPass(c) ==
    /\ FreeSlot(c)
    /\ contextDirty
    /\ Len(rawMessages) # 0
    /\ overlapped' = (overlapped \/ \E d \in Calls : InFlight(d))
    /\ LET split == applyTurnBasedTrimming(rawMessages, maxTurns)
           trimmedRecent == IF toolTrimEnabled THEN applyToolTrimming(split.recent)
                            ELSE split.recent
       IN  /\ toolTrimCountLastRefresh' =
                  IF toolTrimEnabled THEN CountToolTrims(split.recent) ELSE 0
           /\ IF NeedsSummary(split.older, rawMessages, summarizeAfter, lastSummaryTurn)
              THEN /\ pc' = [pc EXCEPT ![c] = "summarize"]
                   /\ recent' = [recent EXCEPT ![c] = trimmedRecent]
                   /\ older' = [older EXCEPT ![c] = split.older]
                   /\ totalTurns' = [totalTurns EXCEPT ![c] = countUserTurns(rawMessages)]
                   /\ summaryAddedLastRefresh' = FALSE
                   /\ UNCHANGED <<optimizedMessages, contextDirty, lastSummaryTurn,
                                  returned>>
              ELSE /\ summaryAddedLastRefresh' = FALSE
                   /\ Finish(c, trimmedRecent)
                   /\ UNCHANGED lastSummaryTurn
    /\ UNCHANGED <<maxTurns, summarizeAfter, metricsEnabled, rawMessages, otherVars>>

\* The summarizer call of call c ends with `outcome`; the pass goes on to
\* its next suspension, or to its end.
SummarizerReturns(c, outcome) ==
    /\ pc[c] = "summarize"
    /\ LET summary == summarizeContext(outcome)
       IN  /\ IF Falsy(summary)
              THEN UNCHANGED <<summaryAddedLastRefresh, lastSummaryTurn>>
              ELSE /\ summaryAddedLastRefresh' = TRUE
                   /\ lastSummaryTurn' = totalTurns[c]
           /\ Finish(c, InjectResult(recent[c], summary))
    /\ UNCHANGED <<maxTurns, summarizeAfter, metricsEnabled, rawMessages,
                   toolTrimCountLastRefresh,
                   overlapped, otherVars>>

\* As MetricsReturns, the dirty flag being left as it is.
MetricsReturnsKeepsFlag(c) ==
    /\ pc[c] = "metrics"
    /\ pc' = [pc EXCEPT ![c] = "idle"]
    /\ returned' = Returns(optimizedMessages, FALSE)
    /\ UNCHANGED <<maxTurns, summarizeAfter, metricsEnabled, rawMessages,
                   toolTrimCountLastRefresh,
                   optimizedMessages, contextDirty, lastSummaryTurn,
                   summaryAddedLastRefresh, recent, older, totalTurns,
                   overlapped, otherVars>>

\* recordMetrics of call c ends (its failure is caught and logged); the call
\* clears the dirty flag and returns this.optimizedMessages.
MetricsReturns(c) ==
    /\ pc[c] = "metrics"
    /\ pc' = [pc EXCEPT ![c] = "idle"]
    /\ contextDirty' = FALSE
    /\ returned' = Returns(optimizedMessages, FALSE)
    /\ UNCHANGED <<maxTurns, summarizeAfter, metricsEnabled, rawMessages,
                   toolTrimCountLastRefresh,
                   optimizedMessages, lastSummaryTurn, summaryAddedLastRefresh,
                   recent, older, totalTurns, overlapped, otherVars>>

\* ------------------------------------------------------------------ relevance ranking
\* A candidate is an enriched profile: its user_id and, of its signalContext,
\* followedByCount, recentBioChange (null or a change) and totalSignals.
MaxCandidates == 3
PersonIds == <<"u1", "u2", "u3", "u4">>
proximityHigh == 50
proximityMid == 35
proximityLow == 20
highFrom == 5
midFrom == 3
lowFrom == 1
bioPoints == 20
signalFactor == 2
signalCap == 20
likedPoints == 10

DefaultOptions == [boostNetwork |-> TRUE, boostLikedSimilar |-> TRUE]
Min(a, b) == IF a < b THEN a ELSE b

\* As relevanceScore, the middle tier starting one follower late.
relevanceScoreLateTier(profile, likedIds, options) ==
    LET ctx == profile.signalContext
    IN  (IF options.boostNetwork
         THEN (IF ctx.followedByCount >= highFrom THEN proximityHigh
               ELSE IF ctx.followedByCount > midFrom THEN proximityMid
               ELSE IF ctx.followedByCount >= lowFrom THEN proximityLow
               ELSE 0)
         ELSE 0)
        + (IF ctx.recentBioChange THEN bioPoints ELSE 0)
        + Min(ctx.totalSignals * signalFactor, signalCap)
        + (IF options.boostLikedSimilar /\ profile.user_id \in likedIds
           THEN likedPoints ELSE 0)

\* The score rankByRelevance gives one profile.
relevanceScore(profile, likedIds, options) ==
    LET ctx == profile.signalContext
    IN  (IF options.boostNetwork
         THEN (IF ctx.followedByCount >= highFrom THEN proximityHigh
               ELSE IF ctx.followedByCount >= midFrom THEN proximityMid
               ELSE IF ctx.followedByCount >= lowFrom THEN proximityLow
               ELSE 0)
         ELSE 0)
        + (IF ctx.recentBioChange THEN bioPoints ELSE 0)
        + Min(ctx.totalSignals * signalFactor, signalCap)
        + (IF options.boostLikedSimilar /\ profile.user_id \in likedIds
           THEN likedPoints ELSE 0)

\* { ...profile, relevanceScore: score }
Scored(profile, score) ==
    [user_id |-> profile.user_id, signalContext |-> profile.signalContext,
     relevanceScore |-> score]

\* As CompareScores, lowest first.
CompareScoresAscending(a, b) == a.relevanceScore - b.relevanceScore

\* (a, b) => (b.relevanceScore || 0) - (a.relevanceScore || 0)
CompareScores(a, b) == b.relevanceScore - a.relevanceScore

\* As InsertByScore, an element going before the elements it ties with.
RECURSIVE InsertBeforeTies(_, _)
InsertBeforeTies(sorted, p) ==
    IF Len(sorted) = 0 THEN <<p>>
    ELSE IF CompareScores(Head(sorted), p) >= 0 THEN <<p>> \o sorted
    ELSE <<Head(sorted)>> \o InsertBeforeTies(Tail(sorted), p)

\* Array.prototype.sort is stable: an element goes before the first element
\* the comparator orders after it.
RECURSIVE InsertByScore(_, _)
InsertByScore(sorted, p) ==
    IF Len(sorted) = 0 THEN <<p>>
    ELSE IF CompareScores(Head(sorted), p) > 0 THEN <<p>> \o sorted
    ELSE <<Head(sorted)>> \o InsertByScore(Tail(sorted), p)
RECURSIVE SortByScore(_, _)
SortByScore(scoredProfiles, n) ==
    IF n = 0 THEN <<>>
    ELSE InsertByScore(SortByScore(scoredProfiles, n - 1), scoredProfiles[n])

\* The liked-set lookup: the set of liked ids, or a failure.
LookupFailed == [failed |-> TRUE, ids |-> {}]
LookupReturns(ids) == [failed |-> FALSE, ids |-> ids]
LikedLookupOutcomes ==
    {LookupFailed} \cup {LookupReturns(ids) : ids \in SUBSET {PersonIds[1], PersonIds[2]}}

\* rankByRelevance: what the call gives its caller.
NotRanked == [status |-> "none", value |-> <<>>]
rankByRelevance(candidates, lookup, options) ==
    IF Len(candidates) = 0 THEN [status |-> "returned", value |-> <<>>]
    ELSE IF options.boostLikedSimilar /\ lookup.failed
    THEN [status |-> "thrown", value |-> <<>>]
    ELSE LET likedIds == IF options.boostLikedSimilar THEN lookup.ids ELSE {}
             scoredProfiles ==
                 [i \in 1..Len(candidates) |->
                     Scored(candidates[i], relevanceScore(candidates[i], likedIds, options))]
         IN  [status |-> "returned",
              value |-> SortByScore(scoredProfiles, Len(scoredProfiles))]

\* The candidates explored: every proximity tier and its edges, with and
\* without a bio change, signal counts below, at and above the cap.
SignalContexts ==
    { [followedByCount |-> n, recentBioChange |-> FALSE, totalSignals |-> 0] : n \in 0..5 }
    \cup { [followedByCount |-> 2, recentBioChange |-> TRUE, totalSignals |-> 0],
           [followedByCount |-> 2, recentBioChange |-> FALSE, totalSignals |-> 3],
           [followedByCount |-> 0, recentBioChange |-> FALSE, totalSignals |-> 10],
           [followedByCount |-> 6, recentBioChange |-> TRUE, totalSignals |-> 11] }
RECURSIVE CandidateLists(_)
CandidateLists(n) ==
    IF n = 0 THEN {<<>>}
    ELSE LET S == CandidateLists(n - 1)
         IN  S \cup { Append(s, [user_id |-> PersonIds[n], signalContext |-> ctx]) :
                        s \in {t \in S : Len(t) = n - 1}, ctx \in SignalContexts }

RankUnused ==
    /\ profiles = <<>>
    /\ likedLookup = LookupReturns({})
    /\ ranked = NotRanked

\* ------------------------------------------------------------------ trigger merge
\* Strings are modelled by what the code does with them.  A userId is its
\* sequence of digits; a YYYY-MM-DD date is <<year, month, day>>, the fields
\* being zero-padded so that comparing the texts compares the fields in
\* order; "" is <<>>.
Persons == {<<4, 2>>, <<7>>}
Dates == {<<2024, 1, 1>>, <<2024, 1, 10>>, <<2024, 1, 12>>}
EmptyString == <<>>
MaxResults == 2

\* JavaScript's a < b on strings: code unit by code unit, a proper prefix first.
RECURSIVE StrLess(_, _)
StrLess(a, b) ==
    IF Len(b) = 0 THEN FALSE
    ELSE IF Len(a) = 0 THEN TRUE
    ELSE IF Head(a) # Head(b) THEN Head(a) < Head(b)
    ELSE StrLess(Tail(a), Tail(b))
StrGreater(a, b) == StrLess(b, a)

\* String.prototype.localeCompare on digit strings: -1, 0 or 1.
localeCompare(a, b) == IF StrLess(a, b) THEN -1 ELSE IF StrLess(b, a) THEN 1 ELSE 0

\* new Date(text).getTime(): a number that grows with the calendar date (the
\* day count of a calendar of 31-day months), NaN for "".
NaN == -1
getTime(date) ==
    IF date = EmptyString THEN NaN
    ELSE (date[1] * 12 + (date[2] - 1)) * 31 + (date[3] - 1)

\* A Map is its sequence of <<key, value>> entries in insertion order.
MapHas(map, key) == \E i \in 1..Len(map) : map[i][1] = key
MapIndex(map, key) == CHOOSE i \in 1..Len(map) : map[i][1] = key
                                                 /\ \A j \in 1..(i - 1) : map[j][1] # key
MapGet(map, key, default) ==
    IF MapHas(map, key) THEN map[MapIndex(map, key)][2] ELSE default
\* As MapSet, but a set of a present key adds a second entry.
MapSetAppending(map, key, value) == Append(map, <<key, value>>)
MapSet(map, key, value) ==
    IF MapHas(map, key)
    THEN [map EXCEPT ![MapIndex(map, key)] = <<key, value>>]
    ELSE Append(map, <<key, value>>)

Includes(seq, x) == \E i \in 1..Len(seq) : seq[i] = x

\* As KeepsNewDate, but the last date seen wins.
KeepsLastDate(existingDate, date) == TRUE

\* The date kept for a user once `date` is seen: `!existingDate || date > existingDate`.
KeepsNewDate(existingDate, date) ==
    existingDate = EmptyString \/ StrGreater(date, existingDate)

\* The trigger list of a user once triggerType is seen.
AddTrigger(triggers, triggerType) ==
    IF Includes(triggers, triggerType) THEN triggers ELSE Append(triggers, triggerType)

\* The entry created for (userId, result); stealthType is "" when none is set.
FindStealth(events, userId) ==
    LET hits == SelectSeq(events, LAMBDA e : e.userId = userId)
    IN  IF Len(hits) = 0 THEN "" ELSE hits[1].type
MakeEntry(result, userId, date) ==
    [userId |-> userId, triggerType |-> result.triggerType, date |-> date,
     stealthType |-> FindStealth(result.stealthEvents, userId)]

\* One iteration of the inner loop.
MergeUser(acc, result, userId) ==
    LET date == MapGet(result.dates, userId, EmptyString)
        existingDate == MapGet(acc.datesByUserId, userId, EmptyString)
        triggers == MapGet(acc.triggersByUserId, userId, <<>>)
    IN  [datesByUserId |->
            IF KeepsNewDate(existingDate, date)
            THEN MapSet(acc.datesByUserId, userId, date)
            ELSE acc.datesByUserId,
         triggersByUserId |->
            MapSet(acc.triggersByUserId, userId, AddTrigger(triggers, result.triggerType)),
         entries |-> Append(acc.entries, MakeEntry(result, userId, date))]

RECURSIVE MergeUsers(_, _, _)
MergeUsers(acc, result, i) ==
    IF i > Len(result.userIds) THEN acc
    ELSE MergeUsers(MergeUser(acc, result, result.userIds[i]), result, i + 1)

RECURSIVE MergeResults(_, _, _)
MergeResults(acc, rs, i) ==
    IF i > Len(rs) THEN acc
    ELSE MergeResults(MergeUsers(acc, rs[i], 1), rs, i + 1)

\* As CompareEntries, without the userId tie-break.
CompareEntriesByDateOnly(a, b) ==
    LET dateA == getTime(a.date)
        dateB == getTime(b.date)
    IN  IF dateA = NaN \/ dateB = NaN THEN 0 ELSE dateB - dateA

\* As CompareEntries, but userIds compared as numbers of one or two digits.
IdNumber(id) == IF Len(id) = 1 THEN id[1] ELSE id[1] * 10 + id[2]
CompareEntriesNumericId(a, b) ==
    LET dateA == getTime(a.date)
        dateB == getTime(b.date)
    IN  IF dateA = NaN \/ dateB = NaN THEN 0
        ELSE IF dateB # dateA THEN dateB - dateA
        ELSE IdNumber(a.userId) - IdNumber(b.userId)

\* The comparator of entries.sort: a negative number puts a first.  A NaN
\* result counts as 0 in Array.prototype.sort.
CompareEntries(a, b) ==
    LET dateA == getTime(a.date)
        dateB == getTime(b.date)
    IN  IF dateA = NaN \/ dateB = NaN THEN 0
        ELSE IF dateB # dateA THEN dateB - dateA
        ELSE localeCompare(a.userId, b.userId)

\* Array.prototype.sort is stable: an element goes after the elements that do
\* not compare greater than it.
RECURSIVE InsertSorted(_, _)
InsertSorted(sorted, e) ==
    IF Len(sorted) = 0 THEN <<e>>
    ELSE IF CompareEntries(sorted[Len(sorted)], e) <= 0 THEN Append(sorted, e)
    ELSE Append(InsertSorted(SubSeq(sorted, 1, Len(sorted) - 1), e), sorted[Len(sorted)])

RECURSIVE SortEntries(_, _)
SortEntries(entries, n) ==
    IF n = 0 THEN <<>> ELSE InsertSorted(SortEntries(entries, n - 1), entries[n])

\* connectionData of the metadata: that of the last result carrying one
\* ("none" stands for undefined).
RECURSIVE LastConnectionData(_, _)
LastConnectionData(rs, n) ==
    IF n = 0 THEN "none"
    ELSE IF rs[n].connectionData # "none" THEN rs[n].connectionData
    ELSE LastConnectionData(rs, n - 1)

mergeAndSortTriggerResults(rs) ==
    LET acc == MergeResults([datesByUserId |-> <<>>, triggersByUserId |-> <<>>,
                             entries |-> <<>>], rs, 1)
    IN  [called |-> TRUE,
         entries |-> SortEntries(acc.entries, Len(acc.entries)),
         datesByUserId |-> acc.datesByUserId,
         triggersByUserId |-> acc.triggersByUserId,
         totalTriggersActive |-> Len(rs),
         connectionData |-> LastConnectionData(rs, Len(rs))]

NotMerged == [called |-> FALSE, entries |-> <<>>, datesByUserId |-> <<>>,
              triggersByUserId |-> <<>>, totalTriggersActive |-> 0,
              connectionData |-> "none"]

\* The results a trigger query returns: each listed user once, a date for
\* every listed user, stealth events for the stealth query only, connection
\* data for the LinkedIn query only (not among the queries explored).  The
\* merge is exported and takes any list, two results of one type included.
PersonOrder == <<<<4, 2>>, <<7>>>>
ListOf(S) == SelectSeq(PersonOrder, LAMBDA p : p \in S)
DatesOf(S, d) == [i \in 1..Cardinality(S) |-> <<ListOf(S)[i], d[ListOf(S)[i]]>>]
\* The stealth query asked for the type "in": every event is of type "in".
EventsOf(S) == [i \in 1..Cardinality(S) |-> [userId |-> ListOf(S)[i], type |-> "in"]]
QueryResults ==
    { [triggerType |-> "bio_change", userIds |-> ListOf(S), dates |-> DatesOf(S, d),
       stealthEvents |-> <<>>, connectionData |-> "none"] :
        S \in SUBSET Persons, d \in [Persons -> Dates] }
    \cup
    { [triggerType |-> "stealth_in", userIds |-> ListOf(S), dates |-> DatesOf(S, d),
       stealthEvents |-> EventsOf(S), connectionData |-> "none"] :
        S \in SUBSET Persons, d \in [Persons -> Dates] }

RECURSIVE ResultLists(_)
ResultLists(n) ==
    IF n = 0 THEN {<<>>}
    ELSE LET S == ResultLists(n - 1)
         IN  S \cup {Append(s, r) : s \in {t \in S : Len(t) = n - 1}, r \in QueryResults}

\* ------------------------------------------------------------------ trigger queries
\* A table row as the queries select it: user_id, date_to (a Date) and, in the
\* stealth table, subscription_id.  A Date is the instant at 00:00 UTC of a
\* day; `rows` are the rows that match the date range and is_signal = true.
DateValue(day) == [day |-> day, time |-> "T00:00:00.000Z"]
normalizeDate(date) == date.day
STEALTH_INTO_SUBSCRIPTION_IDS == <<"29156", "29165", "29166", "29167", "29168">>
STEALTH_OUT_SUBSCRIPTION_IDS ==
    <<"29171", "29172", "29173", "29174", "29175",
      "29179", "29180", "29181", "29182", "29183">>
getStealthType(subscriptionId) ==
    IF Includes(STEALTH_INTO_SUBSCRIPTION_IDS, subscriptionId) THEN "in"
    ELSE IF Includes(STEALTH_OUT_SUBSCRIPTION_IDS, subscriptionId) THEN "out"
    ELSE "null"

MaxRows == 2
MaxBioRows == 1
TableDates == {<<2024, 1, 1>>, <<2024, 1, 10>>}
SubscriptionIds == {"29156", "29171"}
TableRows ==
    { [user_id |-> u, date_to |-> DateValue(d), subscription_id |-> s] :
        u \in Persons, d \in TableDates, s \in SubscriptionIds }
BioTableRows ==
    { [user_id |-> u, date_to |-> DateValue(d), subscription_id |-> "none"] :
        u \in Persons, d \in TableDates }
UpTo(S, n) == {T \in SUBSET S : Cardinality(T) <= n}
StealthTypeLists == {<<>>, <<"in">>, <<"out">>, <<"in", "out">>}

\* ORDER BY <date> DESC: the rows in any order that has no row before a row
\* of a later date (rows of one date come in any order).
OrderedByDateDesc(S, column) ==
    { f \in [1..Cardinality(S) -> S] :
        /\ \A i, j \in 1..Cardinality(S) : i # j => f[i] # f[j]
        /\ \A i, j \in 1..Cardinality(S) :
              i < j => getTime(f[i][column].day) >= getTime(f[j][column].day) }

\* SELECT user_id, MAX(date_to) ... GROUP BY user_id.
GroupByUser(table) ==
    { [user_id |-> u,
       most_recent_date |->
           (CHOOSE r \in table :
               /\ r.user_id = u
               /\ \A q \in table :
                     q.user_id = u => getTime(q.date_to.day) <= getTime(r.date_to.day)).date_to] :
        u \in {r.user_id : r \in table} }
\* SELECT DISTINCT user_id, date_to.
DistinctUserDate(table) ==
    { [user_id |-> r.user_id, date_to |-> r.date_to] : r \in table }
\* WHERE subscription_id = ANY(subscriptionIds).
WithSubscription(table, subscriptionIds) ==
    { r \in table : Includes(subscriptionIds, r.subscription_id) }
\* LIMIT of the per-person queries (the default of their limit parameter).
defaultLimit == 100

\* rows.map(r => r.user_id) and the loop dates.set(row.user_id, normalizeDate(...)).
UserIdsOf(rows) == [i \in 1..Len(rows) |-> rows[i].user_id]
RECURSIVE SetDates(_, _, _, _)
SetDates(dates, rows, i, column) ==
    IF i > Len(rows) THEN dates
    ELSE SetDates(MapSet(dates, rows[i].user_id, normalizeDate(rows[i][column])),
                  rows, i + 1, column)
QueryResult(triggerType, userIds, dates, stealthEvents) ==
    [triggerType |-> triggerType, userIds |-> userIds, dates |-> dates,
     stealthEvents |-> stealthEvents, connectionData |-> "none"]

\* Each query function, from the rows the database returns to its result.
queryBioChangedTrigger(rows) ==
    QueryResult("bio_change", UserIdsOf(rows),
                SetDates(<<>>, rows, 1, "most_recent_date"), <<>>)
queryTwitterFollowsByPerson(rows) ==
    LET limited == Slice(rows, 0, defaultLimit)
    IN  QueryResult("twitter_follow", UserIdsOf(limited),
                    SetDates(<<>>, limited, 1, "date_to"), <<>>)
queryTwitterFollowersOfPerson(rows) ==
    LET limited == Slice(rows, 0, defaultLimit)
    IN  QueryResult("twitter_followed_by", UserIdsOf(limited),
                    SetDates(<<>>, limited, 1, "date_to"), <<>>)

\* subscriptionIds of queryStealthTrigger for the requested types.
StealthSubscriptionIds(types) ==
    (IF Includes(types, "in") THEN STEALTH_INTO_SUBSCRIPTION_IDS ELSE <<>>)
    \o (IF Includes(types, "out") THEN STEALTH_OUT_SUBSCRIPTION_IDS ELSE <<>>)
\* The loop of queryStealthTrigger over the rows.
RECURSIVE StealthLoop(_, _, _)
StealthLoop(acc, rows, i) ==
    IF i > Len(rows) THEN acc
    ELSE LET row == rows[i]
             type == getStealthType(row.subscription_id)
             dateStr == normalizeDate(row.date_to)
         IN  IF type = "null" THEN StealthLoop(acc, rows, i + 1)
             ELSE StealthLoop(
                    [userIdSet |->
                        IF Includes(acc.userIdSet, row.user_id) THEN acc.userIdSet
                        ELSE Append(acc.userIdSet, row.user_id),
                     stealthEvents |->
                        Append(acc.stealthEvents,
                               [userId |-> row.user_id, date |-> dateStr, type |-> type]),
                     datesByUserId |->
                        IF \/ ~MapHas(acc.datesByUserId, row.user_id)
                           \/ StrGreater(dateStr,
                                         MapGet(acc.datesByUserId, row.user_id, EmptyString))
                        THEN MapSet(acc.datesByUserId, row.user_id, dateStr)
                        ELSE acc.datesByUserId],
                    rows, i + 1)
StealthTriggerType(types) ==
    IF Includes(types, "in") THEN "stealth_in" ELSE "stealth_out"
queryStealthTrigger(types, rows) ==
    IF Len(types) = 0 \/ Len(StealthSubscriptionIds(types)) = 0
    THEN QueryResult("stealth_in", <<>>, <<>>, <<>>)
    ELSE LET acc == StealthLoop([userIdSet |-> <<>>, stealthEvents |-> <<>>,
                                 datesByUserId |-> <<>>], rows, 1)
         IN  QueryResult(StealthTriggerType(types), acc.userIdSet,
                         acc.datesByUserId, acc.stealthEvents)

\* What the database returns to each query for the table contents `table`.
QueryNames == {"bio_change", "stealth", "twitter_follow", "twitter_followed_by"}
RowsRead(query, types, table) ==
    CASE query = "bio_change" -> GroupByUser(table)
      [] query = "stealth" -> WithSubscription(table, StealthSubscriptionIds(types))
      [] OTHER -> DistinctUserDate(table)
RowOrders(query, types, table) ==
    IF query = "bio_change"
    THEN OrderedByDateDesc(RowsRead(query, types, table), "most_recent_date")
    ELSE OrderedByDateDesc(RowsRead(query, types, table), "date_to")
RunQuery(query, types, rows) ==
    CASE query = "bio_change" -> queryBioChangedTrigger(rows)
      [] query = "stealth" -> queryStealthTrigger(types, rows)
      [] query = "twitter_follow" -> queryTwitterFollowsByPerson(rows)
      [] query = "twitter_followed_by" -> queryTwitterFollowersOfPerson(rows)

NoQueryResult == [query |-> "none", value |-> QueryResult("none", <<>>, <<>>, <<>>)]
NoFeed == [status |-> "none", value |-> NotMerged]
QueryUnused ==
    /\ tableRows = {}
    /\ bioTable = {}
    /\ filters = [bioChange |-> FALSE, stealth |-> <<>>]
    /\ queryResult = NoQueryResult
    /\ promises = <<>>
    /\ completed = <<>>
    /\ feed = NoFeed

\* A session on which nothing is called.
SessionUnused ==
    /\ maxTurns = 1
    /\ summarizeAfter = 1
    /\ metricsEnabled = TRUE
    /\ rawMessages = <<>>
    /\ optimizedMessages = <<>>
    /\ contextDirty = TRUE
    /\ lastSummaryTurn = 0
    /\ summaryAddedLastRefresh = FALSE
    /\ toolTrimCountLastRefresh = 0
    /\ pc = Idle
    /\ recent = NoLocals
    /\ older = NoLocals
    /\ totalTurns = [c \in Calls |-> 0]
    /\ overlapped = FALSE
    /\ returned = NoReturn

MergeUnused == results = <<>> /\ merged = NotMerged

MergeInit ==
    /\ SessionUnused
    /\ QueryUnused
    /\ TrimUnused
    /\ RankUnused
    /\ results \in ResultLists(MaxResults)
    /\ merged = NotMerged

\* processAllTriggers hands the joined results to the merge.
Merge ==
    /\ ~merged.called
    /\ merged' = mergeAndSortTriggerResults(results)
    /\ UNCHANGED <<sessionVars, results, trimVars, rankVars, triggerVars>>

MergeNext == Merge

MergeSpec == MergeInit /\ [][MergeNext]_vars

\* --- the query functions, each run once over the rows of its table
QueryInit ==
    /\ SessionUnused
    /\ MergeUnused
    /\ TrimUnused
    /\ RankUnused
    /\ tableRows \in UpTo(TableRows, MaxRows)
    /\ bioTable = {}
    /\ \E types \in StealthTypeLists : filters = [bioChange |-> FALSE, stealth |-> types]
    /\ queryResult = NoQueryResult
    /\ promises = <<>>
    /\ completed = <<>>
    /\ feed = NoFeed

\* The database answers and the query function returns its result.
QueryReturns(query) ==
    /\ \E rows \in RowOrders(query, filters.stealth, tableRows) :
          queryResult' = [query |-> query,
                          value |-> RunQuery(query, filters.stealth, rows)]
    /\ UNCHANGED <<tableRows, bioTable, filters, promises, completed, feed,
                   sessionVars, mergeVars, trimVars, rankVars>>
RunBioChanged ==
    /\ queryResult = NoQueryResult
    /\ QueryReturns("bio_change")
RunStealth ==
    /\ queryResult = NoQueryResult
    /\ QueryReturns("stealth")
RunTwitterFollowsByPerson ==
    /\ queryResult = NoQueryResult
    /\ QueryReturns("twitter_follow")
RunTwitterFollowersOfPerson ==
    /\ queryResult = NoQueryResult
    /\ QueryReturns("twitter_followed_by")

QueryNext ==
    \/ RunBioChanged
    \/ RunStealth
    \/ RunTwitterFollowsByPerson
    \/ RunTwitterFollowersOfPerson

QuerySpec == QueryInit /\ [][QueryNext]_vars

\* --- processAllTriggers: the queries are issued, complete in any order, and
\* Promise.all hands their results to the merge.  The filters explored enable
\* the bio change and the stealth queries only.
TriggerInit ==
    /\ SessionUnused
    /\ MergeUnused
    /\ TrimUnused
    /\ RankUnused
    /\ tableRows \in UpTo(TableRows, MaxRows)
    /\ bioTable \in UpTo(BioTableRows, MaxBioRows)
    /\ \E b \in BOOLEAN, types \in StealthTypeLists :
          filters = [bioChange |-> b, stealth |-> types]
    /\ queryResult = NoQueryResult
    /\ promises = <<>>
    /\ completed = <<>>
    /\ feed = NoFeed

Pending(query) == [query |-> query, state |-> "pending",
                   value |-> QueryResult("none", <<>>, <<>>, <<>>)]
\* The feed returned when no trigger is enabled.
EmptyFeed == [called |-> FALSE, entries |-> <<>>, datesByUserId |-> <<>>,
              triggersByUserId |-> <<>>, totalTriggersActive |-> 0,
              connectionData |-> "none"]
\* The call up to `await Promise.all(triggerPromises)`.
processAllTriggers ==
    /\ feed.status = "none"
    /\ LET triggerPromises ==
              (IF filters.bioChange THEN <<Pending("bio_change")>> ELSE <<>>)
              \o (IF Len(filters.stealth) > 0 THEN <<Pending("stealth")>> ELSE <<>>)
       IN  /\ promises' = triggerPromises
           /\ feed' = IF Len(triggerPromises) = 0
                      THEN [status |-> "returned", value |-> EmptyFeed]
                      ELSE [status |-> "pending", value |-> NotMerged]
    /\ UNCHANGED <<tableRows, bioTable, filters, queryResult, completed,
                   sessionVars, mergeVars, trimVars, rankVars>>

TableOf(query) == IF query = "bio_change" THEN bioTable ELSE tableRows
\* The database answers query i and the query function returns.
QueryFulfils(i) ==
    /\ promises[i].state = "pending"
    /\ \E rows \in RowOrders(promises[i].query, filters.stealth, TableOf(promises[i].query)) :
          promises' = [promises EXCEPT ![i] =
                          [query |-> promises[i].query, state |-> "fulfilled",
                           value |-> RunQuery(promises[i].query, filters.stealth, rows)]]
    /\ completed' = Append(completed, i)
    /\ UNCHANGED <<tableRows, bioTable, filters, queryResult, feed,
                   sessionVars, mergeVars, trimVars, rankVars>>
\* The database fails query i and the query function throws.
QueryRejects(i) ==
    /\ promises[i].state = "pending"
    /\ promises' = [promises EXCEPT ![i].state = "rejected"]
    /\ completed' = Append(completed, i)
    /\ UNCHANGED <<tableRows, bioTable, filters, queryResult, feed,
                   sessionVars, mergeVars, trimVars, rankVars>>

\* As JoinFulfilled, the results being taken in the order of completion.
JoinInCompletionOrder ==
    /\ feed.status = "pending"
    /\ \A i \in 1..Len(promises) : promises[i].state = "fulfilled"
    /\ feed' = [status |-> "returned",
                value |-> mergeAndSortTriggerResults(
                              [k \in 1..Len(completed) |-> promises[completed[k]].value])]
    /\ UNCHANGED <<tableRows, bioTable, filters, queryResult, promises, completed,
                   sessionVars, mergeVars, trimVars, rankVars>>
\* Promise.all fulfils with the results in the order of the promises, and
\* the merge runs on them.
JoinFulfilled ==
    /\ feed.status = "pending"
    /\ \A i \in 1..Len(promises) : promises[i].state = "fulfilled"
    /\ feed' = [status |-> "returned",
                value |-> mergeAndSortTriggerResults(
                              [i \in 1..Len(promises) |-> promises[i].value])]
    /\ UNCHANGED <<tableRows, bioTable, filters, queryResult, promises, completed,
                   sessionVars, mergeVars, trimVars, rankVars>>
\* Promise.all rejects as soon as one promise rejects: the call throws.
JoinRejected ==
    /\ feed.status = "pending"
    /\ \E i \in 1..Len(promises) : promises[i].state = "rejected"
    /\ feed' = [status |-> "rejected", value |-> NotMerged]
    /\ UNCHANGED <<tableRows, bioTable, filters, queryResult, promises, completed,
                   sessionVars, mergeVars, trimVars, rankVars>>

TriggerNext ==
    \/ processAllTriggers
    \/ \E i \in 1..Len(promises) : QueryFulfils(i)
    \/ \E i \in 1..Len(promises) : QueryRejects(i)
    \/ JoinFulfilled
    \/ JoinRejected

TriggerSpec == TriggerInit /\ [][TriggerNext]_vars


\* ------------------------------------------------------------------ compressor applied repeatedly
TrimInit ==
    /\ SessionUnused
    /\ QueryUnused
    /\ MergeUnused
    /\ \E input \in ToolInputs : toolName = input[1] /\ toolResult = input[2]
    /\ previousResult = toolResult
    /\ applications = 0
    /\ toolTrimming = NotTrimmed
    /\ RankUnused

\* trimToolResult applied to the result at hand.
ApplyTrim ==
    /\ applications < MaxApplications
    /\ previousResult' = toolResult
    /\ toolResult' = trimToolResult(toolName, toolResult)
    /\ applications' = applications + 1
    /\ UNCHANGED <<toolName, toolTrimming, sessionVars, mergeVars, rankVars, triggerVars>>

\* applyToolTrimming over an assistant message that carries the tool result as
\* its one tool event, the counter starting at 0 as in refreshOptimizedCache.
TrimMessage ==
    /\ ~toolTrimming.done
    /\ LET messages == << [role |-> "assistant", content |-> "c",
                           toolEvents |-> <<ToolResultEvent(toolName, toolResult)>>] >>
       IN  toolTrimming' = [done |-> TRUE,
                            input |-> ToolResultEvent(toolName, toolResult),
                            messages |-> applyToolTrimming(messages),
                            count |-> CountToolTrims(messages)]
    /\ UNCHANGED <<toolName, toolResult, previousResult, applications,
                   sessionVars, mergeVars, rankVars, triggerVars>>

TrimNext == ApplyTrim \/ TrimMessage

TrimSpec == TrimInit /\ [][TrimNext]_vars


\* ------------------------------------------------------------------ ranking a candidate list
RankInit ==
    /\ SessionUnused
    /\ QueryUnused
    /\ MergeUnused
    /\ TrimUnused
    /\ profiles \in CandidateLists(MaxCandidates)
    /\ likedLookup \in LikedLookupOutcomes
    /\ ranked = NotRanked

\* rankByRelevance(profiles, userId) with the default options.
Rank ==
    /\ ranked = NotRanked
    /\ ranked' = rankByRelevance(profiles, likedLookup, DefaultOptions)
    /\ UNCHANGED <<profiles, likedLookup, sessionVars, mergeVars, trimVars, triggerVars>>

RankNext == Rank

RankSpec == RankInit /\ [][RankNext]_vars


Init ==
    /\ SessionInit
    /\ QueryUnused
    /\ MergeUnused
    /\ TrimUnused
    /\ RankUnused

Next ==
    \/ \E batch \in RoleSeqs(MaxBatch) :
          /\ Len(rawMessages) + Len(batch) <= MaxMsgs
          /\ addMessages(CoreMessages(batch, Len(rawMessages)))
    \/ \E c \in Calls : CacheHit(c)
    \/ \E c \in Calls : EmptyPass(c)
    \/ \E c \in Calls : StartPass(c)
    \/ \E c \in Calls, outcome \in SummarizerOutcomes : SummarizerReturns(c, outcome)
    \/ \E c \in Calls : MetricsReturns(c)

Spec == Init /\ [][Next]_vars

\* ================================================================== claims
AllIdle == \A c \in Calls : pc[c] = "idle"
Range(seq) == {seq[i] : i \in 1..Len(seq)}

\* The summary exchange: the synthetic user message directly followed by an
\* assistant message carrying the summary text.
HasSummary(msgs) ==
    \E i \in 1..(Len(msgs) - 1) :
        /\ msgs[i] = [role |-> "user", content |-> SummaryPrompt]
        /\ msgs[i + 1] = [role |-> "assistant", content |-> SummaryText]

\* The lists a pass over `raw` can store: the recent window, with or without
\* the summary exchange.
OutputsFor(raw) ==
    IF Len(raw) = 0 THEN {<<>>}
    ELSE LET window == applyTurnBasedTrimming(raw, maxTurns).recent
         IN  {toSdkFormat(window), toSdkFormat(InjectResult(window, <<SummaryText>>))}

\* C1: with at most one pass in flight at a time, whenever the session is
\* clean and no pass is in flight, the cached list was computed from the
\* complete current raw history (a stale mark set by addMessages is never lost).
StaleMarkNeverLost ==
    (~overlapped /\ ~contextDirty /\ AllIdle) => optimizedMessages \in OutputsFor(rawMessages)

\* The position (1-based) of the n-th user message counting from 0, or one
\* past the end when there is none.
NthUserPosition(raw, n) ==
    IF \E p \in 1..Len(raw) : raw[p].role = "user"
                              /\ Cardinality({q \in 1..(p - 1) : raw[q].role = "user"}) = n
    THEN CHOOSE p \in 1..Len(raw) : raw[p].role = "user"
                              /\ Cardinality({q \in 1..(p - 1) : raw[q].role = "user"}) = n
    ELSE Len(raw) + 1
UserCount(raw) == Cardinality({p \in 1..Len(raw) : raw[p].role = "user"})

\* C2: turn-window invariant: with k user messages and 0 <= maxTurns < k, the
\* recent bucket holds exactly the messages at or after the (k - maxTurns)-th
\* user message plus all system messages, and the older bucket holds every
\* non-system message before it.
TurnWindowInvariant ==
    LET k == UserCount(rawMessages)
        cut == NthUserPosition(rawMessages, k - maxTurns)
        split == applyTurnBasedTrimming(rawMessages, maxTurns)
    IN  (maxTurns < k) =>
            /\ Range(split.recent) =
                  {rawMessages[p] : p \in {q \in 1..Len(rawMessages) :
                                              q >= cut \/ rawMessages[q].role = "system"}}
            /\ split.older = SelectSeq(SubSeq(rawMessages, 1, cut - 1), IsNotSystem)

\* C3: no-op below threshold: with k <= maxTurns, getOptimizedMessages returns
\* all raw messages in order, the summarizer is not invoked and summaryAdded
\* is false.  (On a clean idle session the call returns the cached list.)
NoOpBelowThreshold ==
    (UserCount(rawMessages) <= maxTurns) =>
        /\ \A c \in Calls : pc[c] # "summarize"
        /\ (~overlapped /\ ~contextDirty /\ AllIdle) =>
               /\ optimizedMessages = toSdkFormat(rawMessages)
               /\ ~summaryAddedLastRefresh

\* C8: a summarizer call that throws or returns empty text still lets the pass
\* go on: the stored output is the recent window without a summary exchange,
\* no older message is in it, summaryAdded is false and the watermark is
\* unchanged.
SummarizerFailureDegrades ==
    [][\A c \in Calls : \A outcome \in {"throw", "empty"} :
          SummarizerReturns(c, outcome) =>
              /\ pc'[c] \in {"metrics", "idle"}
              /\ optimizedMessages' = toSdkFormat(recent[c])
              /\ ~HasSummary(optimizedMessages')
              /\ Range(optimizedMessages') \cap Range(older[c]) = {}
              /\ lastSummaryTurn' = lastSummaryTurn
              /\ (~overlapped => ~summaryAddedLastRefresh')]_vars

OlderSummarizedNotDropped ==
    [][\A c \in Calls :
          /\ StartPass(c) /\ pc'[c] # "summarize"
          /\ ~overlapped'
          /\ summarizeAfter > 0
          /\ UserCount(rawMessages) > summarizeAfter
          /\ Len(applyTurnBasedTrimming(rawMessages, maxTurns).older) > 0
          => HasSummary(optimizedMessages')]_vars

\* C11: cache hit when clean: when a call has returned, no addMessages call
\* was made since and no call is in flight, the session is clean and the cache
\* is the list that call returned; the next call then takes the cache-hit
\* path: it returns that same list, stores nothing and enters neither the
\* summarizer nor the metrics recorder.
CacheHitWhenClean ==
    /\ []((AllIdle /\ returned.any) =>
             (~contextDirty /\ optimizedMessages = returned.value))
    /\ [][\A c \in Calls :
            (AllIdle /\ returned.any
             /\ (CacheHit(c) \/ EmptyPass(c) \/ StartPass(c))) =>
                /\ returned'.cached
                /\ returned'.value = returned.value
                /\ pc' = pc
                /\ optimizedMessages' = optimizedMessages
                /\ lastSummaryTurn' = lastSummaryTurn
                /\ summaryAddedLastRefresh' = summaryAddedLastRefresh]_vars

\* A second call returned a non-empty windowed list from the cache.
CacheHitWitness ==
    /\ AllIdle
    /\ returned.any /\ returned.cached
    /\ Len(returned.value) > 0
    /\ Len(returned.value) < Len(rawMessages)

\* Every system message of `msgs` is in `out`, and in `out` every system
\* message precedes every non-system message.
SystemPinned(msgs, out) ==
    /\ \A i \in 1..Len(msgs) : msgs[i].role = "system" => msgs[i] \in Range(out)
    /\ \A i, j \in 1..Len(out) :
          (out[i].role # "system" /\ out[j].role = "system") => j < i

\* C12: system messages are pinned: a pass over a history with more user turns
\* than maxTurns stores an output that holds every system message of the
\* history, all of them before every non-system message, with or without a
\* summary.
SystemMessagesPinned ==
    [][\A c \in Calls :
          /\ (StartPass(c) /\ pc'[c] # "summarize"
               /\ UserCount(rawMessages) > maxTurns) =>
                 SystemPinned(rawMessages, optimizedMessages')
          /\ (pc[c] = "summarize" /\ pc'[c] # "summarize") =>
                 SystemPinned(recent[c], optimizedMessages')]_vars

\* C13: idempotent re-trim: for every tool name and tool result, applying
\* trimToolResult to its own output yields that same output (counts, lengths,
\* raw_output, flags and every compressed item with its signal_summary).
IdempotentReTrim ==
    (applications >= 2) => toolResult = previousResult

\* The position in the raw history of an appended message (contents are
\* unique to a message), 0 for a message that is not of the history.
RawPosition(raw, m) ==
    IF \E p \in 1..Len(raw) : raw[p] = m
    THEN CHOOSE p \in 1..Len(raw) : raw[p] = m
    ELSE 0
\* The non-system messages of `out` that come from `raw` are in the order of
\* `raw`.
InAppendOrder(raw, out) ==
    \A i, j \in 1..Len(out) :
        (/\ i < j
         /\ out[i].role # "system" /\ out[j].role # "system"
         /\ RawPosition(raw, out[i]) > 0 /\ RawPosition(raw, out[j]) > 0)
        => RawPosition(raw, out[i]) < RawPosition(raw, out[j])

\* C18: conversation order is preserved: in every output a pass stores, the
\* non-system messages that come from the raw history are in the order in
\* which they were appended.
ConversationOrderPreserved ==
    InAppendOrder(rawMessages, optimizedMessages)

\* A summary was injected before two messages of the history, an older
\* message having been dropped.
ConversationOrderWitness ==
    /\ HasSummary(optimizedMessages)
    /\ \E i, j \in 1..Len(optimizedMessages) :
          /\ i < j
          /\ RawPosition(rawMessages, optimizedMessages[i]) > 1
          /\ RawPosition(rawMessages, optimizedMessages[j]) > 1
          /\ optimizedMessages[i].role = "user"
          /\ optimizedMessages[j].role = "assistant"
    /\ rawMessages[1] \notin Range(optimizedMessages)

\* The messages of `msgs` without repetitions, in order of first occurrence.
RECURSIVE Distinct(_)
Distinct(msgs) ==
    IF Len(msgs) = 0 THEN <<>>
    ELSE LET rest == Distinct(SubSeq(msgs, 1, Len(msgs) - 1))
             last == msgs[Len(msgs)]
         IN  IF last \in Range(rest) THEN rest ELSE Append(rest, last)

\* C19: summary placement: a pass that injects a summary stores exactly all
\* system messages (each once), then the synthetic user message and the
\* assistant message carrying the summary, then the non-system messages of
\* the recent window in their order; no older message is in the output.
SummaryPlacement ==
    [][\A c \in Calls :
          SummarizerReturns(c, "text") =>
              /\ optimizedMessages' =
                    toSdkFormat(Distinct(SelectSeq(recent[c], IsSystem))
                                \o << [role |-> "user", content |-> SummaryPrompt],
                                      [role |-> "assistant", content |-> SummaryText] >>
                                \o SelectSeq(recent[c], IsNotSystem))
              /\ Range(optimizedMessages') \cap Range(toSdkFormat(older[c])) = {}]_vars

\* C20: the last-summarized-turn watermark is monotonic: no step of any
\* interleaving of addMessages and getOptimizedMessages calls, calls that
\* overlap while suspended in the summarizer included, decreases it.
WatermarkMonotonic ==
    [][lastSummaryTurn' >= lastSummaryTurn]_vars

\* C21 as stated: with 0 < summarizeAfter < maxTurns the summarizer is never
\* invoked and summaryAdded is never true.
SummarizationNeverTriggers ==
    (0 < summarizeAfter /\ summarizeAfter < maxTurns) =>
        /\ \A c \in Calls : pc[c] # "summarize"
        /\ ~summaryAddedLastRefresh

\* C21 as amended: with 0 < summarizeAfter < maxTurns, as long as the history
\* holds at most maxTurns user turns the summarizer is not invoked, summaryAdded
\* is false and the watermark is 0; a pass over a history with more than
\* maxTurns user turns, more than the watermark, does invoke the summarizer.
SummarizationWaitsForWindow ==
    /\ []((0 < summarizeAfter /\ summarizeAfter < maxTurns
           /\ UserCount(rawMessages) <= maxTurns) =>
             /\ \A c \in Calls : pc[c] # "summarize"
             /\ ~summaryAddedLastRefresh
             /\ lastSummaryTurn = 0)
    /\ [][\A c \in Calls :
            (/\ 0 < summarizeAfter /\ summarizeAfter < maxTurns
             /\ StartPass(c)
             /\ UserCount(rawMessages) > maxTurns
             /\ UserCount(rawMessages) > lastSummaryTurn)
            => pc'[c] = "summarize"]_vars

\* With summarizeAfter below maxTurns a summary was injected once the history
\* had outgrown the window.
SummarizationWaitsWitness ==
    /\ 0 < summarizeAfter /\ summarizeAfter < maxTurns
    /\ summaryAddedLastRefresh
    /\ lastSummaryTurn > maxTurns
    /\ HasSummary(optimizedMessages)

\* C28: no message is duplicated by compaction: each message of the raw
\* history occurs at most once in the optimized output, and an output without
\* a summary is never longer than the raw history.
NoMessageDuplicated ==
    /\ \A i, j \in 1..Len(optimizedMessages) :
          (i # j /\ RawPosition(rawMessages, optimizedMessages[i]) > 0)
              => optimizedMessages[i] # optimizedMessages[j]
    /\ ~HasSummary(optimizedMessages) => Len(optimizedMessages) <= Len(rawMessages)

TierPoints(count) ==
    IF count = 0 THEN 0
    ELSE IF count \in 1..2 THEN 20
    ELSE IF count \in 3..4 THEN 35
    ELSE 50
RuleScore(r, likedIds) ==
    TierPoints(r.signalContext.followedByCount)
    + (IF r.signalContext.recentBioChange THEN 20 ELSE 0)
    + (IF 2 * r.signalContext.totalSignals < 20
       THEN 2 * r.signalContext.totalSignals ELSE 20)
    + (IF r.user_id \in likedIds THEN 10 ELSE 0)

\* C14: relevance score: every candidate handed to rankByRelevance (default
\* options) is in the result with score = proximity + bio + volume + liked,
\* proximity being 0, 20, 35, 50 for 0, 1-2, 3-4, >= 5 followers, bio 20 for a
\* recent bio change, volume min(2 * totalSignals, 20) and liked 10 for a
\* liked id.
RelevanceScoreRule ==
    (ranked.status = "returned") =>
        /\ \A j \in 1..Len(profiles) :
              \E i \in 1..Len(ranked.value) :
                  /\ ranked.value[i].user_id = profiles[j].user_id
                  /\ ranked.value[i].signalContext = profiles[j].signalContext
        /\ \A i \in 1..Len(ranked.value) :
              ranked.value[i].relevanceScore = RuleScore(ranked.value[i], likedLookup.ids)

\* A liked candidate with every component at its maximum was scored next to
\* one of the middle tier.
RelevanceScoreWitness ==
    /\ ranked.status = "returned"
    /\ \E i, j \in 1..Len(ranked.value) :
          /\ ranked.value[i].relevanceScore = 100
          /\ ranked.value[i].user_id \in likedLookup.ids
          /\ ranked.value[j].signalContext.followedByCount = 3
          /\ ranked.value[j].relevanceScore = 35

\* The candidate list with the followedByCount of candidate k set to n.
WithFollowers(list, k, n) ==
    [list EXCEPT ![k].signalContext.followedByCount = n]
PositionOf(rankedList, id) ==
    CHOOSE i \in 1..Len(rankedList) : rankedList[i].user_id = id
ScoreOf(rankedList, id) == rankedList[PositionOf(rankedList, id)].relevanceScore
\* The ranking of the list after the change of candidate k.
RankedAfterChange(k) ==
    rankByRelevance(WithFollowers(profiles, k, 5), likedLookup, DefaultOptions).value

\* C15: ranking monotonicity: changing one candidate's followedByCount from 2
\* to 5 strictly increases its score, leaves every other score unchanged,
\* never moves the candidate to a worse position and keeps the untouched
\* candidates in the same order among themselves.
RankingMonotonicity ==
    (ranked.status = "returned") =>
        \A k \in 1..Len(profiles) :
            (profiles[k].signalContext.followedByCount = 2) =>
                LET before == ranked.value
                    after == RankedAfterChange(k)
                    changed == profiles[k].user_id
                    others == {profiles[j].user_id : j \in (1..Len(profiles)) \ {k}}
                IN  /\ ScoreOf(after, changed) > ScoreOf(before, changed)
                    /\ \A y \in others : ScoreOf(after, y) = ScoreOf(before, y)
                    /\ PositionOf(after, changed) <= PositionOf(before, changed)
                    /\ \A y, z \in others :
                          (PositionOf(before, y) < PositionOf(before, z))
                              <=> (PositionOf(after, y) < PositionOf(after, z))

\* The change moved a candidate of a three-candidate list from last to first.
RankingMonotonicityWitness ==
    /\ ranked.status = "returned"
    /\ Len(profiles) = 3
    /\ \E k \in 1..Len(profiles) :
          /\ profiles[k].signalContext.followedByCount = 2
          /\ PositionOf(ranked.value, profiles[k].user_id) = 3
          /\ PositionOf(RankedAfterChange(k), profiles[k].user_id) = 1

\* The scored candidates a ranking with an empty liked set returns.
RankedWithNothingLiked ==
    rankByRelevance(profiles, LookupReturns({}), DefaultOptions)

\* C16: a failing liked-set lookup is degradable: rankByRelevance still
\* returns, every candidate scored as with an empty liked set, and nothing is
\* raised to the caller.
LikedLookupFailureDegrades ==
    (ranked.status # "none" /\ likedLookup.failed) =>
        /\ ranked.status = "returned"
        /\ ranked.value = RankedWithNothingLiked.value

InputIndex(id) == CHOOSE k \in 1..Len(profiles) : profiles[k].user_id = id

\* C17: ranked order: the list rankByRelevance returns holds every input
\* candidate exactly once, in descending order of score, candidates of equal
\* score in their input order; the input list is left as it was.
RankedOrder ==
    /\ []((ranked.status = "returned") =>
            LET out == ranked.value
            IN  /\ Len(out) = Len(profiles)
                /\ \A k \in 1..Len(profiles) :
                      Cardinality({i \in 1..Len(out) :
                          /\ out[i].user_id = profiles[k].user_id
                          /\ out[i].signalContext = profiles[k].signalContext}) = 1
                /\ \A i, j \in 1..Len(out) :
                      (i < j) =>
                          /\ out[i].relevanceScore >= out[j].relevanceScore
                          /\ (out[i].relevanceScore = out[j].relevanceScore) =>
                                InputIndex(out[i].user_id) < InputIndex(out[j].user_id))
    /\ [][(ranked' # ranked) => (profiles' = profiles)]_vars

\* A list of three was reordered, two candidates of equal score keeping
\* their input order behind a later candidate of higher score.
RankedOrderWitness ==
    /\ ranked.status = "returned"
    /\ Len(ranked.value) = 3
    /\ ranked.value[1].user_id = profiles[3].user_id
    /\ ranked.value[2].user_id = profiles[1].user_id
    /\ ranked.value[2].relevanceScore = ranked.value[3].relevanceScore

\* ------------------------------------------------------------------ compressor claims

\* The result is below every threshold its tool's trimmer applies: a list of
\* at most 50 items, detail arrays of at most 3 elements, or (any other tool)
\* a serialization of at most maxToolPayloadChars characters.
BelowEveryThreshold(tool, result) ==
    /\ IsObject(result)
    /\ LET r == result.fields
       IN  CASE tool = "find_people" ->
                  Has(r, "results") => Len(r["results"]) <= maxProfiles
             [] tool = "get_person_details" ->
                  Has(r, "profile") =>
                      \A i \in 1..Len(arrayFields) :
                          arrayFields[i] \in DOMAIN r["profile"] =>
                              Len(r["profile"][arrayFields[i]]) <= arrayFieldLimit
             [] tool = "analyze_network" ->
                  Has(r, "profiles") => Len(r["profiles"]) <= maxProfiles
             [] tool = "get_feed_signals" ->
                  Has(r, "signals") => Len(r["signals"]) <= maxSignals
             [] tool = "get_group_members" ->
                  Has(r, "members") => Len(r["members"]) <= maxMembers
             [] OTHER -> Len(JSONstringify(r)) <= maxToolPayloadChars

\* C22: a tool result below every threshold comes out of the tool trimming
\* unchanged, its event's trimmed flag not set and the per-pass trim counter
\* not incremented, whatever the tool.
BelowThresholdUntouched ==
    (/\ toolTrimming.done
     /\ BelowEveryThreshold(toolTrimming.input.tool, toolTrimming.input.result))
        => /\ toolTrimming.messages[1].toolEvents[1] = toolTrimming.input
           /\ toolTrimming.count = 0

\* The list a list-type tool's result carries, by tool.
ListKey(tool) ==
    CASE tool = "find_people" -> "results"
      [] tool = "analyze_network" -> "profiles"
      [] tool = "get_feed_signals" -> "signals"
      [] tool = "get_group_members" -> "members"
ListTools == {"find_people", "analyze_network", "get_feed_signals",
              "get_group_members"}
ListCap == maxProfiles
\* trimToolResult has just been applied to a list-type result holding its list.
ListTrimmed ==
    /\ applications >= 1
    /\ toolName \in ListTools
    /\ IsObject(previousResult)
    /\ Has(previousResult.fields, ListKey(toolName))

\* C23: a list of more than 50 items comes out as its first 50 items (each as
\* it was or compressed) with trimmed = true and original_count the original
\* length; a list of 50 or fewer keeps its length; no output list exceeds 50.
ListCapApplied ==
    ListTrimmed =>
        LET input == previousResult.fields[ListKey(toolName)]
            out == toolResult.fields
            list == out[ListKey(toolName)]
        IN  /\ Len(list) <= ListCap
            /\ Len(input) <= ListCap => Len(list) = Len(input)
            /\ Len(input) > ListCap =>
                  /\ Len(list) = ListCap
                  /\ \A i \in 1..ListCap :
                        \/ list[i] = input[i]
                        \/ list[i] = compressProfile(input[i])
                  /\ out["trimmed"] = TRUE
                  /\ out["original_count"] = Len(input)
ListCapWitness ==
    /\ ListTrimmed
    /\ Len(previousResult.fields[ListKey(toolName)]) > ListCap
    /\ Len(toolResult.fields[ListKey(toolName)]) = ListCap
    /\ toolResult.fields[ListKey(toolName)][1]
          # toolResult.fields[ListKey(toolName)][ListCap]

\* C24: the items of a list-type tool's output have all been through the
\* compressProfile allowlist, whether the list exceeded the cap or not.
ItemsAlwaysCompressed ==
    ListTrimmed =>
        LET input == previousResult.fields[ListKey(toolName)]
            list == toolResult.fields[ListKey(toolName)]
        IN  \A i \in 1..Len(list) :
                list[i] = compressProfile(input[i])

\* trimToolResult has just been applied to an object by a tool name that has
\* no trimmer of its own.
GenericTrimmed ==
    /\ applications >= 1
    /\ toolName \notin TrimmerTools
    /\ IsObject(previousResult)
SerializedLength(result) == Len(JSONstringify(result.fields))
\* The result is the truncation wrapper of the serialization of `before`.
IsTruncationOf(result, before) ==
    /\ DOMAIN result.fields = {"raw_output", "truncated", "original_length"}
    /\ result.fields["raw_output"]
          = SubSeq(JSONstringify(before.fields), 1, maxToolPayloadChars)
    /\ result.fields["truncated"] = TRUE
    /\ result.fields["original_length"] = SerializedLength(before)
GenericTrimRule ==
    GenericTrimmed =>
        IF SerializedLength(previousResult) <= maxToolPayloadChars
        THEN toolResult = previousResult
        ELSE IsTruncationOf(toolResult, previousResult)

LatestDay(query, types, table, u) ==
    LET days == { r.date_to.day : r \in { q \in table : q.user_id = u } }
        read == IF query = "stealth"
                THEN { r.date_to.day :
                         r \in { q \in WithSubscription(table, StealthSubscriptionIds(types)) :
                                   q.user_id = u } }
                ELSE days
    IN  CHOOSE d \in read : \A e \in read : getTime(e) <= getTime(d)

\* C26: the result of a query function lists each person once, and its dates
\* map gives each listed person the latest date among that person's rows.
MostRecentDatePerPerson ==
    (queryResult.query # "none") =>
        LET r == queryResult.value
        IN  /\ \A i, j \in 1..Len(r.userIds) : i # j => r.userIds[i] # r.userIds[j]
            /\ \A i \in 1..Len(r.userIds) :
                  MapGet(r.dates, r.userIds[i], EmptyString)
                      = LatestDay(queryResult.query, filters.stealth, tableRows,
                                  r.userIds[i])

\* The results of the queries in the order they were issued, and in the order
\* they completed.
IssuedResults == [i \in 1..Len(promises) |-> promises[i].value]
CompletedResults == [k \in 1..Len(completed) |-> promises[completed[k]].value]
EnabledQueries ==
    (IF filters.bioChange THEN 1 ELSE 0) + (IF Len(filters.stealth) > 0 THEN 1 ELSE 0)

\* C27: every enabled query is issued before any completes; a feed is produced
\* only once every query has completed, it is the merge of the results in
\* the order of issue whatever the order of completion, and no feed is
\* produced when a query has failed.
FanOutAndJoin ==
    /\ feed.status # "none" => Len(promises) = EnabledQueries
    /\ feed.status = "none" => completed = <<>>
    /\ (feed.status = "returned" /\ Len(promises) > 0) =>
          /\ \A i \in 1..Len(promises) : promises[i].state = "fulfilled"
          /\ feed.value = mergeAndSortTriggerResults(IssuedResults)
    /\ (\E i \in 1..Len(promises) : promises[i].state = "rejected") =>
          feed.status # "returned" /\ feed.value = NotMerged
FanOutAndJoinWitness ==
    /\ feed.status = "returned"
    /\ completed = <<2, 1>>
    /\ mergeAndSortTriggerResults(CompletedResults) # feed.value

\* The types of the stealth rows of user u that the stealth query has read.
StealthTypesOf(u) ==
    { getStealthType(r.subscription_id) :
        r \in { q \in WithSubscription(tableRows, StealthSubscriptionIds(filters.stealth)) :
                  q.user_id = u } }
IsStealthEntry(e) == e.triggerType \in {"stealth_in", "stealth_out"}

\* C30: in the merged feed an entry of type stealth_in belongs to a person
\* with a stealth-enter row and carries stealthType "in", and a person whose
\* stealth rows are all exits is reported as stealth_out, for every requested
\* type list.
StealthTypeMatchesEvent ==
    (feed.status = "returned") =>
        \A i \in 1..Len(feed.value.entries) :
            LET entry == feed.value.entries[i]
            IN  /\ entry.triggerType = "stealth_in" =>
                      /\ "in" \in StealthTypesOf(entry.userId)
                      /\ entry.stealthType = "in"
                /\ (IsStealthEntry(entry) /\ StealthTypesOf(entry.userId) = {"out"}) =>
                      entry.triggerType = "stealth_out"

\* ------------------------------------------------------------------ merge claims
Lists(result, p) == Includes(result.userIds, p)
Listed == {p \in Persons : \E i \in 1..Len(results) : Lists(results[i], p)}
ListingResults(p) == {i \in 1..Len(results) : Lists(results[i], p)}
DateIn(result, p) == MapGet(result.dates, p, EmptyString)

\* Calendar order on <<year, month, day>>.
DateLeq(a, b) ==
    \/ a[1] < b[1]
    \/ a[1] = b[1] /\ a[2] < b[2]
    \/ a[1] = b[1] /\ a[2] = b[2] /\ a[3] <= b[3]
MaxDate(p) ==
    CHOOSE d \in {DateIn(results[i], p) : i \in ListingResults(p)} :
        \A i \in ListingResults(p) : DateLeq(DateIn(results[i], p), d)

\* The trigger types of the results listing p, each once, in first-seen order.
FirstSeenTypes(p) ==
    LET first == SelectSeq([i \in 1..Len(results) |-> i],
                   LAMBDA i : /\ Lists(results[i], p)
                              /\ \A j \in 1..(i - 1) :
                                    ~(Lists(results[j], p)
                                      /\ results[j].triggerType = results[i].triggerType))
    IN  [n \in 1..Len(first) |-> results[first[n]].triggerType]

\* C4: for every person listed in some result, datesByUserId holds the maximum
\* of the person's dates and triggersByUserId the trigger types of the results
\* listing the person, without duplicates, in first-seen order.
MergeAggregates ==
    merged.called =>
        \A p \in Listed :
            /\ MapGet(merged.datesByUserId, p, EmptyString) = MaxDate(p)
            /\ MapGet(merged.triggersByUserId, p, <<>>) = FirstSeenTypes(p)

\* A person listed by two results of different types, the first with the
\* later date.
MergeAggregatesWitness ==
    /\ merged.called
    /\ Len(results) = 2
    /\ \E p \in Persons :
          /\ Lists(results[1], p) /\ Lists(results[2], p)
          /\ results[1].triggerType # results[2].triggerType
          /\ DateIn(results[1], p) # DateIn(results[2], p)
          /\ DateLeq(DateIn(results[2], p), DateIn(results[1], p))

Count(seq, Test(_)) == Len(SelectSeq(seq, Test))

\* C5 as stated: every listed person appears exactly once in the returned
\* sequence of entries, no other person appears, no input gives no entry.
OneEntryPerPerson ==
    merged.called =>
        /\ \A p \in Listed : Count(merged.entries, LAMBDA e : e.userId = p) = 1
        /\ \A i \in 1..Len(merged.entries) : merged.entries[i].userId \in Listed
        /\ (Len(results) = 0 => Len(merged.entries) = 0)

\* C5 as amended: every listed person is a key of datesByUserId and of
\* triggersByUserId exactly once and no other person is a key; the entries
\* hold one entry per (person, result) listing; no input gives an empty result.
MergeCompleteness ==
    merged.called =>
        /\ \A p \in Persons :
              LET n == IF p \in Listed THEN 1 ELSE 0
              IN  /\ Count(merged.datesByUserId, LAMBDA kv : kv[1] = p) = n
                  /\ Count(merged.triggersByUserId, LAMBDA kv : kv[1] = p) = n
                  /\ Count(merged.entries, LAMBDA e : e.userId = p)
                        = Cardinality(ListingResults(p))
        /\ (Len(results) = 0 =>
               /\ Len(merged.entries) = 0
               /\ Len(merged.datesByUserId) = 0
               /\ Len(merged.triggersByUserId) = 0)

\* One person listed by two results, the other by none.
MergeCompletenessWitness ==
    /\ merged.called
    /\ \E p \in Persons : Cardinality(ListingResults(p)) = 2
    /\ \E p \in Persons : p \notin Listed

Permute(seq, f) == [i \in 1..Len(seq) |-> seq[f[i]]]
Reorderings == {Permute(results, f) : f \in Permutations(1..Len(results))}
SortKeys(entries) == [i \in 1..Len(entries) |-> <<entries[i].date, entries[i].userId>>]

\* C6 as stated: every permutation of the input gives the same entries in the
\* same order and the same trigger list and date per person.
MergeDeterminism ==
    merged.called =>
        \A rs \in Reorderings :
            LET other == mergeAndSortTriggerResults(rs)
            IN  /\ other.entries = merged.entries
                /\ \A p \in Persons :
                      /\ MapGet(other.triggersByUserId, p, <<>>)
                            = MapGet(merged.triggersByUserId, p, <<>>)
                      /\ MapGet(other.datesByUserId, p, EmptyString)
                            = MapGet(merged.datesByUserId, p, EmptyString)

\* C6 as amended: every permutation of the input gives the same date and the
\* same set of trigger types per person, the same entries as a multiset, and
\* the same sequence of (date, userId) along the sorted entries.
MergePermutationInvariant ==
    merged.called =>
        \A rs \in Reorderings :
            LET other == mergeAndSortTriggerResults(rs)
            IN  /\ SortKeys(other.entries) = SortKeys(merged.entries)
                /\ \A e \in Range(merged.entries) \cup Range(other.entries) :
                      Count(other.entries, LAMBDA x : x = e)
                         = Count(merged.entries, LAMBDA x : x = e)
                /\ \A p \in Persons :
                      /\ Range(MapGet(other.triggersByUserId, p, <<>>))
                            = Range(MapGet(merged.triggersByUserId, p, <<>>))
                      /\ MapGet(other.datesByUserId, p, EmptyString)
                            = MapGet(merged.datesByUserId, p, EmptyString)

\* A permutation of the input changes the order of the entries.
MergePermutationWitness ==
    /\ merged.called
    /\ \E rs \in Reorderings :
          mergeAndSortTriggerResults(rs).entries # merged.entries

\* a comes no later than b in descending date order, ties by userId ascending.
InFeedOrder(dateA, idA, dateB, idB) ==
    \/ (dateA # dateB /\ DateLeq(dateB, dateA))
    \/ (dateA = dateB /\ ~StrLess(idB, idA))

\* C7 as stated: the returned sequence is ordered by each person's most recent
\* date descending, ties broken by personId ascending.
FeedOrderedByMostRecentDate ==
    merged.called =>
        \A i, j \in 1..Len(merged.entries) :
            i < j =>
                InFeedOrder(MapGet(merged.datesByUserId, merged.entries[i].userId, EmptyString),
                            merged.entries[i].userId,
                            MapGet(merged.datesByUserId, merged.entries[j].userId, EmptyString),
                            merged.entries[j].userId)

\* The example of the specification.
ExampleInput ==
    << [triggerType |-> "bio_change", userIds |-> << <<4, 2>> >>,
        dates |-> << <<<<4, 2>>, <<2024, 1, 10>>>> >>, stealthEvents |-> <<>>,
        connectionData |-> "none"],
       [triggerType |-> "stealth_in", userIds |-> << <<4, 2>>, <<7>> >>,
        dates |-> << <<<<4, 2>>, <<2024, 1, 12>>>>, <<<<7>>, <<2024, 1, 1>>>> >>,
        stealthEvents |-> << [userId |-> <<4, 2>>, type |-> "in"],
                             [userId |-> <<7>>, type |-> "in"] >>,
        connectionData |-> "none"] >>

\* C7 as amended: the returned entries, one per (person, result) listing, are
\* ordered by each entry's own date descending, ties broken by userId
\* ascending; on the example the entries of person 42 come before the entry of
\* person 7, and person 42 has types [bio_change, stealth_in] and date 2024-01-12.
EntriesOrderedByOwnDate ==
    merged.called =>
        /\ \A i, j \in 1..Len(merged.entries) :
              i < j => InFeedOrder(merged.entries[i].date, merged.entries[i].userId,
                                   merged.entries[j].date, merged.entries[j].userId)
        /\ results = ExampleInput =>
              /\ [i \in 1..Len(merged.entries) |-> merged.entries[i].userId]
                    = << <<4, 2>>, <<4, 2>>, <<7>> >>
              /\ MapGet(merged.triggersByUserId, <<4, 2>>, <<>>) = <<"bio_change", "stealth_in">>
              /\ MapGet(merged.datesByUserId, <<4, 2>>, EmptyString) = <<2024, 1, 12>>
              /\ MapGet(merged.triggersByUserId, <<7>>, <<>>) = <<"stealth_in">>
              /\ MapGet(merged.datesByUserId, <<7>>, EmptyString) = <<2024, 1, 1>>

\* Entries of both persons with equal dates, after an entry with another date.
EntriesOrderedWitness ==
    /\ merged.called
    /\ \E i, j, k \in 1..Len(merged.entries) :
          /\ i < j /\ j < k
          /\ merged.entries[i].date # merged.entries[j].date
          /\ merged.entries[j].date = merged.entries[k].date
          /\ merged.entries[j].userId # merged.entries[k].userId


====
